---- MODULE Spec2Model ----
(***************************************************************************)
(* Model of the Enlighten tools: the rate-limited REST client of           *)
(* Enlighten.py, the option resolution of getOps (monitor.py, blink.py,    *)
(* nliten.py), the polling loops of monitor.run and blink.run and the LED  *)
(* states of the two Indicators classes.                                   *)
(*                                                                         *)
(* Time is in whole seconds.  A Python value that may be None is a         *)
(* sequence: <<>> is None and <<v>> is the value v.                        *)
(*                                                                         *)
(* SpecClient: a library user of Enlighten.  SpecOps: getOps and the       *)
(* construction that follows it.  Spec: the polling runs.  SpecLive: the   *)
(* polling runs under fairness, for termination.  SpecIndicators: a        *)
(* direct user of Indicators.py.                                           *)
(***************************************************************************)
EXTENDS Integers, Sequences, FiniteSets, TLC

\* ------------------------------------------------------------ bounds
\* time.time() when the process starts
StartTime == 1700000000
\* REST requests one polling run may issue
MaxHits == 4
\* seconds a time.sleep() may overshoot its argument
MaxJitter == 1
\* seconds a requests.get() may take
MaxLatency == 1
\* seconds a library user may idle between API calls
MaxIdle == 6
\* API calls a library user makes on a constructed client
MaxCalls == 2
\* different <<call, LEDs before, LEDs after>> a direct user of Indicators makes
MaxLedCalls == 3

\* ------------------------------------------------------------ Python values
None == <<>>

Some(v) == <<v>>

\* truth value of an optional number: None and 0 are false
TruthyNum(x) == x # None /\ x[1] # 0

\* truth value of an optional string: None and "" are false
TruthyStr(x) == x # None /\ x[1] # ""

\* d[k] = v on a dict
Put(d, k, v) == [x \in (DOMAIN d) \cup {k} |-> IF x = k THEN v ELSE d[x]]

\* ------------------------------------------------------------ program constants
API_CMDS == {"consumptionStats", "envoys", "inventory", "productionMeters",
             "rgmStats", "stats", "summary", "systems"}

DEF_HITS_PER_MIN == 10

CELLULAR_INTERVAL == 6 * 60 * 60

WIFI_INTERVAL == 15 * 60

\* UPDATE_INTERVAL of monitor.py (cellular) and of blink.py (WiFi)
UPDATE_INTERVAL(p) == IF p = "monitor" THEN CELLULAR_INTERVAL ELSE WIFI_INTERVAL

RETRY_DELAY == 60 * 5

\* run's pollInterval: computed from the rate, then overwritten by 3
pollInterval(p, rate) ==
    LET computed == IF p = "monitor" THEN (60 * 60) * rate ELSE (60 * 60) \div rate
    IN  3

DEF_INTERVAL == 6

DEF_RATE == 4

VARIABLES
    prog,         \* which entry point runs: "monitor", "blink", "nliten", or "lib"
    pc,           \* position of the process
    now,          \* time.time()
    exitLoop,     \* the Event the signal handler sets
    argv,         \* command-line flags: [apiKey, uid, sysId], each optional
    confFile,     \* [exists, docs]: the YAML documents of the configuration file
    environ,      \* os.environ, for the three ENPHASE_ variables
    options,      \* what getOps returned (None before)
    envReads,     \* environment variables getOps looked up
    errors,       \* error messages logged or printed, in order
    exitStatus,   \* None while running, else the process's exit status
    nliten,       \* the Enlighten object (None before construction)
    hits,         \* number of HTTP requests issued
    reqLog,       \* the last two HTTP requests: [calledAt, slept, at, status]
    result,       \* what the last API method returned
    leds,         \* colours of LED 1 and LED 2
    ledCall,      \* the last Indicators method called
    current,      \* run's local
    normal,       \* run's local
    summary,      \* run's local
    stats,        \* run's local
    waitDeadline, \* when the running exitLoop.wait(pollInterval) times out
    delay,        \* [jitter, latency]: overshoot of a sleep and duration of a request
    shown,        \* per (current, normal): the <<LEDs before, LEDs after>> of each summary poll
    rate,         \* the -r/--rate flag (None: not given, argparse supplies the default)
    lastResp,     \* the last HTTP response received: [status_code, json]
    ledSeen       \* per call a direct user of Indicators made: its <<LEDs before, LEDs after>>

vars == <<prog, pc, now, exitLoop, argv, confFile, environ, options, envReads,
          errors, exitStatus, nliten, hits, reqLog, result, leds, ledCall,
          current, normal, summary, stats, waitDeadline, delay, shown,
          rate, lastResp, ledSeen>>

optVars == <<argv, confFile, environ, options, envReads, errors>>

runVars == <<exitLoop, leds, ledCall, current, normal, summary, stats, waitDeadline, shown>>

\* ------------------------------------------------------------ Enlighten.py
\* HTTP responses: a status code and a JSON body
StatusCodes == {200, 409}

SystemsBodies ==
    { [systems |-> <<>>],
      [systems |-> << [system_id |-> "sys1"] >>],
      [systems |-> << [system_id |-> "sys2"], [system_id |-> "sys1"] >>] }

Statuses(p) == IF p = "lib" THEN {"normal"} ELSE {"normal", "comm"}

\* ages of the last report relative to the time of the request (a library
\* user does not look at them)
Ages(p) == IF p = "lib" THEN {0} ELSE {0, UPDATE_INTERVAL(p), UPDATE_INTERVAL(p) + 1}

\* the overshoots and latencies of the environment
Delays == [jitter : 0..MaxJitter, latency : 0..MaxLatency]

SummaryBodies(p, t) ==
    { [status |-> s, last_report_at |-> t - a] : s \in Statuses(p), a \in Ages(p) }

StatsBodies(p, t) ==
    { [meta |-> [status |-> s, last_report_at |-> t - a]] : s \in Statuses(p), a \in Ages(p) }

OtherBodies == { [ok |-> TRUE] }

ErrorBody == [reason |-> "error"]

\* what the server may answer to a request of cmd made at time t
Responses(p, cmd, t) ==
    LET bodies == CASE cmd = "systems" -> SystemsBodies
                    [] cmd = "summary" -> SummaryBodies(p, t)
                    [] cmd = "stats"   -> StatsBodies(p, t)
                    [] OTHER           -> OtherBodies
    IN  { [status_code |-> 200, json |-> b] : b \in bodies }
        \cup { [status_code |-> c, json |-> ErrorBody] : c \in StatusCodes \ {200} }

\* Enlighten._rest: the parsed body on 200, else None
_rest(r) == IF r.status_code = 200 THEN Some(r.json) ELSE None

\* Enlighten._rest: the log after the response r (a failure is logged)
RestLog(errs, r) ==
    IF r.status_code = 200 THEN errs
    ELSE Append(errs, <<"logging.error", "Failed REST call">>)

\* SleepFor with the sleep computed wrongly: the elapsed time, not the remainder
SleepForElapsed(lastHit, t, secsBetweenHits) ==
    IF TruthyNum(lastHit)
      THEN LET delta == t - lastHit[1]
           IN  IF delta < secsBetweenHits THEN delta ELSE 0
      ELSE 0

\* seconds rateLimitedREST sleeps when called at time t
SleepFor(lastHit, t, secsBetweenHits) ==
    IF TruthyNum(lastHit)
      THEN LET delta == t - lastHit[1]
           IN  IF delta < secsBetweenHits THEN secsBetweenHits - delta ELSE 0
      ELSE 0

\* rateLimitedREST with lastHit recorded before the sleep instead of after it
rateLimitedRESTEarlyStamp(self, cmd, t, jitter, r) ==
    LET slept == SleepFor(self.lastHit, t, self.secsBetweenHits)
        t1    == IF slept > 0 THEN t + slept + jitter ELSE t
    IN  [self |-> [self EXCEPT !.lastHit = Some(t)],
         req  |-> [calledAt |-> t, slept |-> slept, at |-> t1, status |-> r.status_code],
         ret  |-> _rest(r)]

\* rateLimitedREST with lastHit recorded only when the request succeeded
rateLimitedRESTStampOnSuccess(self, cmd, t, jitter, r) ==
    LET slept == SleepFor(self.lastHit, t, self.secsBetweenHits)
        t1    == IF slept > 0 THEN t + slept + jitter ELSE t
    IN  [self |-> [self EXCEPT !.lastHit = IF r.status_code = 200 THEN Some(t1) ELSE @],
         req  |-> [calledAt |-> t, slept |-> slept, at |-> t1, status |-> r.status_code],
         ret  |-> _rest(r)]

\* Enlighten.rateLimitedREST called at time t: the sleep (overshooting by
\* jitter), the recorded lastHit, the request and its result
rateLimitedREST(self, cmd, t, jitter, r) ==
    LET slept == SleepFor(self.lastHit, t, self.secsBetweenHits)
        t1    == IF slept > 0 THEN t + slept + jitter ELSE t
    IN  [self |-> [self EXCEPT !.lastHit = Some(t1)],
         req  |-> [calledAt |-> t, slept |-> slept, at |-> t1, status |-> r.status_code],
         ret  |-> _rest(r)]

\* the request log keeps the last two requests
Log(log, req) == IF Len(log) < 2 THEN Append(log, req) ELSE <<log[2], req>>

\* Enlighten.__init__ at time t: [self, req, exc]
EnlightenInit(uid, apiKey, sysId, hitsPerMin, t, jitter, r) ==
    LET self0 == [uid |-> uid, apiKey |-> apiKey, hitsPerMin |-> hitsPerMin,
                  secsBetweenHits |-> 60 \div hitsPerMin, lastHit |-> None,
                  allSystems |-> None, sysId |-> None]
        call  == rateLimitedREST(self0, "systems", t, jitter, r)
        self1 == [call.self EXCEPT !.allSystems = call.ret]
        exc   == IF TruthyStr(sysId) THEN ""
                 ELSE IF call.ret = None THEN "TypeError"
                 ELSE IF Len(call.ret[1].systems) = 0 THEN "IndexError"
                 ELSE ""
        sid   == IF TruthyStr(sysId) THEN sysId
                 ELSE IF exc = "" THEN Some(call.ret[1].systems[1].system_id)
                 ELSE None
    IN  [self |-> [self1 EXCEPT !.sysId = sid], req |-> call.req, exc |-> exc]

\* hitsPerMin values a library user constructs the client with
HitsPerMinChoices == {DEF_HITS_PER_MIN, 20}

\* A library user constructs the client.
Construct ==
    /\ prog = "lib" /\ pc = "new"
    /\ \E sysId \in {None, Some(""), Some("sys2")}, hpm \in HitsPerMinChoices,
          r \in Responses(prog, "systems", now) :
         LET c == EnlightenInit(Some("uid"), Some("key"), sysId, hpm, now, delay.jitter, r)
         IN  /\ hits' = hits + 1
             /\ reqLog' = Log(reqLog, c.req)
             /\ now' = c.req.at + delay.latency
             /\ lastResp' = Some(r)
             /\ IF c.exc = ""
                  THEN /\ nliten' = Some(c.self)
                       /\ pc' = "idle"
                       /\ errors' = RestLog(errors, r)
                       /\ UNCHANGED exitStatus
                  ELSE /\ nliten' = None
                       /\ pc' = "raised"
                       /\ errors' = Append(RestLog(errors, r), <<"raise", c.exc>>)
                       /\ exitStatus' = Some(1)
             /\ result' = None
    /\ UNCHANGED <<prog, rate, ledSeen, argv, confFile, environ, options, envReads, delay>>
    /\ UNCHANGED runVars

\* A library user calls one of the API methods (systems, summary, stats, ...).
ApiCall ==
    /\ prog = "lib" /\ pc = "idle"
    /\ hits < 1 + MaxCalls
    /\ \E cmd \in API_CMDS : \E r \in Responses(prog, cmd, now) :
         LET call == rateLimitedREST(nliten[1], cmd, now, delay.jitter, r)
         IN  /\ nliten' = Some(call.self)
             /\ hits' = hits + 1
             /\ reqLog' = Log(reqLog, call.req)
             /\ now' = call.req.at + delay.latency
             /\ result' = call.ret
             /\ lastResp' = Some(r)
             /\ errors' = RestLog(errors, r)
    /\ UNCHANGED <<prog, rate, ledSeen, pc, exitStatus, delay>>
    /\ UNCHANGED <<argv, confFile, environ, options, envReads>>
    /\ UNCHANGED runVars

\* Time passes between two calls of a library user.
Idle ==
    /\ prog = "lib" /\ pc = "idle"
    /\ now < StartTime + MaxIdle
    /\ now' = now + 1
    /\ UNCHANGED <<prog, rate, ledSeen, lastResp, pc, exitStatus, nliten, hits, reqLog, result, delay>>
    /\ UNCHANGED optVars
    /\ UNCHANGED runVars

\* The load of the machine and of the network changes between two calls.
LoadChange ==
    /\ prog = "lib" /\ pc = "idle"
    /\ hits < 1 + MaxCalls
    /\ \E d \in Delays \ {delay} : delay' = d
    /\ UNCHANGED <<prog, rate, ledSeen, lastResp, pc, now, exitStatus, nliten, hits, reqLog, result>>
    /\ UNCHANGED optVars
    /\ UNCHANGED runVars

NoArgv == [apiKey |-> None, uid |-> None, sysId |-> None]

NoEnviron == [ENPHASE_API_KEY |-> None, ENPHASE_UID |-> None, ENPHASE_SYSID |-> None]

NoShown == [p \in BOOLEAN \X BOOLEAN |-> {}]

\* the calls a direct user of Indicators.py can make: <<method, argument>>
IndicatorCalls ==
    { <<"staleData", FALSE>>, <<"lateReport", FALSE>>, <<"abnormalData", FALSE>>,
      <<"currentData", FALSE>>, <<"currentData", TRUE>> }

NoSeen == [c \in IndicatorCalls |-> {}]

\* what every process starts with
InitCommon ==
    /\ now = StartTime
    /\ exitLoop = FALSE
    /\ options = None
    /\ envReads = {}
    /\ errors = <<>>
    /\ exitStatus = None
    /\ nliten = None
    /\ hits = 0
    /\ reqLog = <<>>
    /\ result = None
    /\ leds = <<"unset", "unset">>
    /\ ledCall = "none"
    /\ current = FALSE
    /\ normal = FALSE
    /\ summary = None
    /\ stats = None
    /\ waitDeadline = 0
    /\ shown = NoShown
    /\ lastResp = None
    /\ ledSeen = NoSeen

InitClient ==
    /\ prog = "lib"
    /\ pc = "new"
    /\ argv = NoArgv
    /\ confFile = [exists |-> FALSE, docs |-> <<>>]
    /\ environ = NoEnviron
    /\ delay \in Delays
    /\ rate = None
    /\ InitCommon

NextClient == Construct \/ ApiCall \/ Idle \/ LoadChange

SpecClient == InitClient /\ [][NextClient]_vars

\* ------------------------------------------------------------ getOps
\* resolution of apiKey or uid with the environment consulted first whenever
\* no flag is given
ResolveCredEnvFirst(opt, conf, key, envVal) ==
    IF TruthyStr(opt)
      THEN [conf |-> Put(conf, key, opt), envRead |-> FALSE, exit |-> FALSE]
    ELSE IF TruthyStr(envVal)
      THEN [conf |-> Put(conf, key, envVal), envRead |-> TRUE, exit |-> FALSE]
    ELSE IF key \notin DOMAIN conf
      THEN [conf |-> conf, envRead |-> TRUE, exit |-> TRUE]
    ELSE [conf |-> conf, envRead |-> TRUE, exit |-> FALSE]

\* resolution of apiKey or uid that goes on without a value instead of exiting
ResolveCredNoExit(opt, conf, key, envVal) ==
    IF TruthyStr(opt)
      THEN [conf |-> Put(conf, key, opt), envRead |-> FALSE, exit |-> FALSE]
    ELSE IF key \notin DOMAIN conf
      THEN [conf |-> Put(conf, key, envVal), envRead |-> TRUE, exit |-> FALSE]
    ELSE [conf |-> conf, envRead |-> FALSE, exit |-> FALSE]

\* resolution of apiKey or uid in which the configuration file's entry wins over the flag
ResolveCredFileWins(opt, conf, key, envVal) ==
    IF key \in DOMAIN conf
      THEN [conf |-> conf, envRead |-> FALSE, exit |-> FALSE]
    ELSE IF TruthyStr(opt)
      THEN [conf |-> Put(conf, key, opt), envRead |-> FALSE, exit |-> FALSE]
    ELSE IF ~TruthyStr(envVal)
      THEN [conf |-> conf, envRead |-> TRUE, exit |-> TRUE]
    ELSE [conf |-> Put(conf, key, envVal), envRead |-> TRUE, exit |-> FALSE]

\* getOps on apiKey or uid: the flag, else the configuration file's entry,
\* else the environment variable, else exit
ResolveCred(opt, conf, key, envVal) ==
    IF TruthyStr(opt)
      THEN [conf |-> Put(conf, key, opt), envRead |-> FALSE, exit |-> FALSE]
    ELSE IF key \notin DOMAIN conf
      THEN IF ~TruthyStr(envVal)
             THEN [conf |-> conf, envRead |-> TRUE, exit |-> TRUE]
             ELSE [conf |-> Put(conf, key, envVal), envRead |-> TRUE, exit |-> FALSE]
    ELSE [conf |-> conf, envRead |-> FALSE, exit |-> FALSE]

\* getOps on sysId: the flag, else the environment variable when the
\* configuration file has no sysId, else None
ResolveSysId(opt, conf, envVal) ==
    IF TruthyStr(opt)
      THEN [conf |-> Put(conf, "sysId", opt), envRead |-> FALSE]
    ELSE IF "sysId" \notin DOMAIN conf \/ ~TruthyStr(conf["sysId"])
      THEN [conf |-> Put(conf, "sysId", envVal), envRead |-> TRUE]
    ELSE [conf |-> Put(conf, "sysId", None), envRead |-> FALSE]

\* where main goes when getOps returns: monitor.py and blink.py call run,
\* nliten.py ends
AfterGetOps(p) == IF p = "nliten" THEN "end" ELSE "run"

\* sys.exit(1) after reporting msg
Exit1(how, msg) ==
    /\ pc' = "exited"
    /\ exitStatus' = Some(1)
    /\ errors' = Append(errors, <<how, msg>>)

\* getOps of monitor.py, blink.py and nliten.py
getOps ==
    /\ prog \in {"monitor", "blink", "nliten"} /\ pc = "main"
    /\ IF ~confFile.exists
         THEN /\ Exit1("print", "Configuration file not found")
              /\ UNCHANGED <<options, envReads>>
       ELSE IF Len(confFile.docs) < 1
         THEN /\ Exit1("print", "Empty configuration file")
              /\ UNCHANGED <<options, envReads>>
       ELSE
         LET conf0 == confFile.docs[1]
             a == ResolveCred(argv.apiKey, conf0, "apiKey", environ.ENPHASE_API_KEY)
             u == ResolveCred(argv.uid, a.conf, "uid", environ.ENPHASE_UID)
             s == ResolveSysId(argv.sysId, u.conf, environ.ENPHASE_SYSID)
         IN  IF a.exit
               THEN /\ Exit1("logging.error", "Must provide API Key")
                    /\ envReads' = {"ENPHASE_API_KEY"}
                    /\ UNCHANGED options
             ELSE IF u.exit
               THEN /\ Exit1("logging.error", "Must provide User Id")
                    /\ envReads' = {"ENPHASE_UID"} \cup
                                   (IF a.envRead THEN {"ENPHASE_API_KEY"} ELSE {})
                    /\ UNCHANGED options
             ELSE /\ envReads' = (IF a.envRead THEN {"ENPHASE_API_KEY"} ELSE {})
                                 \cup (IF u.envRead THEN {"ENPHASE_UID"} ELSE {})
                                 \cup (IF s.envRead THEN {"ENPHASE_SYSID"} ELSE {})
                  /\ options' = Some([apiKey |-> s.conf["apiKey"], uid |-> s.conf["uid"],
                                      sysId |-> s.conf["sysId"]])
                  /\ pc' = AfterGetOps(prog)
                  /\ exitStatus' = IF prog = "nliten" THEN Some(0) ELSE None
                  /\ UNCHANGED errors
    /\ UNCHANGED <<prog, rate, ledSeen, lastResp, now, argv, confFile, environ, nliten, hits, reqLog, result, delay>>
    /\ UNCHANGED runVars

\* ------------------------------------------------------------ Indicators
\* Blink1.fade_to_color on LED ledn (0: both LEDs)
fade_to_color(l, color, ledn) ==
    IF ledn = 0 THEN <<color, color>> ELSE [l EXCEPT ![ledn] = color]

\* Indicators.__init__ of Indicators.py (gray) and of blink.py (white)
IndicatorsInit(p, l) ==
    IF p = "monitor" THEN fade_to_color(l, "gray", 0) ELSE fade_to_color(l, "white", 0)

\* Indicators.staleData of Indicators.py
staleData(l) == fade_to_color(fade_to_color(l, "orange", 1), "black", 2)

\* lateReport that leaves LED 1 as it is
lateReportLed2Only(l) == fade_to_color(l, "orange", 2)

\* Indicators.lateReport of Indicators.py
lateReport(l) == fade_to_color(fade_to_color(l, "black", 1), "orange", 2)

\* currentData that leaves LED 2 as it is
currentDataLed1Only(l, isNormal) ==
    fade_to_color(l, IF isNormal THEN "black" ELSE "red", 1)

\* currentData that shows abnormal data in the colour of stale data
currentDataOrange(l, isNormal) ==
    fade_to_color(fade_to_color(l, IF isNormal THEN "black" ELSE "orange", 1), "black", 2)

\* Indicators.currentData of Indicators.py
currentData(l, isNormal) ==
    fade_to_color(fade_to_color(l, IF isNormal THEN "black" ELSE "red", 1), "black", 2)

\* Indicators.abnormalData of Indicators.py
abnormalData(l) == fade_to_color(fade_to_color(l, "black", 1), "red", 2)

\* the LEDs after the call c of a method of Indicators.py
IndicatorCall(c, l) ==
    CASE c[1] = "staleData"    -> staleData(l)
      [] c[1] = "lateReport"   -> lateReport(l)
      [] c[1] = "abnormalData" -> abnormalData(l)
      [] OTHER                 -> currentData(l, c[2])

\* Indicators.staleData of blink.py
blinkStaleData(l) == fade_to_color(fade_to_color(l, "black", 1), "red", 2)

\* Indicators.currentData of blink.py
blinkCurrentData(l, isNormal) ==
    fade_to_color(fade_to_color(l, "black", 1), IF isNormal THEN "green" ELSE "orange", 2)

\* Indicators.data of blink.py
blinkData(l) == fade_to_color(l, "blue", 2)

\* Indicators.error of blink.py
blinkError(l) == fade_to_color(l, "red", 1)

\* ------------------------------------------------------------ run
DefaultRate(p) == IF p = "monitor" THEN DEF_INTERVAL ELSE DEF_RATE

\* options['rate']: the flag's value, else the default of the parser
Rate(p, flag) == IF flag = None THEN DefaultRate(p) ELSE flag[1]

\* the -r/--rate values followed: not given, or the smallest of the choices
Rates == {None, Some(1)}

RunPcs == {"outer", "inner", "summary", "retry", "stats", "wait"}

\* an uncaught exception ends the process, after the messages errs were logged
RaiseAfter(errs, exc) ==
    /\ pc' = "raised"
    /\ exitStatus' = Some(1)
    /\ errors' = Append(errs, <<"raise", exc>>)

Raise(exc) == RaiseAfter(errors, exc)

\* signalHandler: SIGINT sets the event
signalHandler ==
    /\ prog \in {"monitor", "blink"} /\ pc \in RunPcs
    /\ exitLoop' = TRUE
    /\ UNCHANGED <<prog, rate, ledSeen, lastResp, pc, now, exitStatus, nliten, hits, reqLog, result, delay,
                   leds, ledCall, current, normal, summary, stats, waitDeadline, shown>>
    /\ UNCHANGED optVars

\* run, up to the polling loop: the Indicators and the Enlighten client are
\* made (Blink1() raises when no device is plugged in)
runStart ==
    /\ prog \in {"monitor", "blink"} /\ pc = "run"
    /\ \E device \in BOOLEAN, r \in Responses(prog, "systems", now) :
         IF ~device
           THEN /\ Raise("Blink1ConnectionFailed")
                /\ UNCHANGED <<leds, ledCall, nliten, hits, reqLog, now, lastResp>>
           ELSE
             LET o == options[1]
                 c == EnlightenInit(o.uid, o.apiKey, o.sysId, DEF_HITS_PER_MIN, now,
                                    delay.jitter, r)
             IN  /\ leds' = IndicatorsInit(prog, leds)
                 /\ ledCall' = "__init__"
                 /\ hits' = hits + 1
                 /\ reqLog' = Log(reqLog, c.req)
                 /\ now' = c.req.at + delay.latency
                 /\ lastResp' = Some(r)
                 /\ IF c.exc = ""
                      THEN /\ nliten' = Some(c.self)
                           /\ pc' = "outer"
                           /\ errors' = RestLog(errors, r)
                           /\ UNCHANGED exitStatus
                      ELSE /\ nliten' = None
                           /\ RaiseAfter(RestLog(errors, r), c.exc)
    /\ UNCHANGED <<prog, rate, ledSeen, argv, confFile, environ, options, envReads, result, delay>>
    /\ UNCHANGED <<exitLoop, current, normal, summary, stats, waitDeadline, shown>>

\* the test of the outer loop that never looks at the event
OuterGoesOnAlways(ev) == TRUE

\* the test of the outer loop: while not exitLoop.is_set()
OuterGoesOn(ev) == ~ev

\* the test of the inner loop without the look at the event
InnerGoesOnNoEvent(p, cur, nrm, ev) == ~(cur /\ nrm)

\* the test of the inner loop: monitor.py also looks at the event, blink.py does not
InnerGoesOn(p, cur, nrm, ev) ==
    IF p = "monitor" THEN ~(cur /\ nrm) /\ ~ev ELSE ~(cur /\ nrm)

outerTest ==
    /\ prog \in {"monitor", "blink"} /\ pc = "outer"
    /\ IF OuterGoesOn(exitLoop)
         THEN /\ current' = FALSE
              /\ normal' = FALSE
              /\ pc' = "inner"
              /\ UNCHANGED exitStatus
         ELSE /\ pc' = "done"
              /\ exitStatus' = Some(0)
              /\ UNCHANGED <<current, normal>>
    /\ UNCHANGED <<prog, rate, ledSeen, lastResp, now, nliten, hits, reqLog, result, exitLoop, leds, ledCall,
                   summary, stats, waitDeadline, delay, shown>>
    /\ UNCHANGED optVars

innerTest ==
    /\ prog \in {"monitor", "blink"} /\ pc = "inner"
    /\ pc' = IF InnerGoesOn(prog, current, normal, exitLoop) THEN "summary" ELSE "stats"
    /\ UNCHANGED <<prog, rate, ledSeen, lastResp, now, exitStatus, nliten, hits, reqLog, result, delay>>
    /\ UNCHANGED optVars
    /\ UNCHANGED runVars

\* the stale test of run on a summary: current = last_report_at < time.time() - UPDATE_INTERVAL
IsCurrent(p, last_report_at, t) == last_report_at < t - UPDATE_INTERVAL(p)

\* the LEDs after a summary was evaluated
SummaryLeds(p, l, cur, nrm) ==
    IF ~cur
      THEN (IF p = "monitor" THEN staleData(l) ELSE blinkStaleData(l))
      ELSE (IF p = "monitor" THEN currentData(l, nrm) ELSE blinkCurrentData(l, nrm))

\* the inner loop's body after nliten.summary() returned ret, on the response
\* r, at time t
EvalSummary(ret, r, t) ==
    /\ summary' = ret
    /\ lastResp' = Some(r)
    /\ IF ret = None
         THEN /\ RaiseAfter(RestLog(errors, r), "TypeError")
              /\ UNCHANGED <<current, normal, leds, ledCall>>
         ELSE LET cur == IsCurrent(prog, ret[1].last_report_at, t)
                  nrm == ret[1].status = "normal"
                  l   == SummaryLeds(prog, leds, cur, nrm)
              IN  /\ current' = cur
                  /\ normal' = nrm
                  /\ leds' = l
                  /\ ledCall' = IF ~cur THEN "staleData" ELSE "currentData"
                  /\ pc' = IF ~cur THEN "inner"
                           ELSE IF nrm THEN "stats" ELSE "retry"
                  /\ UNCHANGED <<errors, exitStatus>>

\* one pass of the inner loop: the summary is fetched and shown
pollSummary ==
    /\ prog \in {"monitor", "blink"} /\ pc = "summary"
    /\ hits < MaxHits
    /\ \E r \in Responses(prog, "summary", now) :
         LET call == rateLimitedREST(nliten[1], "summary", now, delay.jitter, r)
             t    == call.req.at + delay.latency
         IN  /\ nliten' = Some(call.self)
             /\ hits' = hits + 1
             /\ reqLog' = Log(reqLog, call.req)
             /\ now' = t
             /\ EvalSummary(call.ret, r, t)
             /\ shown' = IF call.ret = None THEN shown
                         ELSE [shown EXCEPT ![<<current', normal'>>] = @ \cup {<<leds, leds'>>}]
    /\ UNCHANGED <<prog, rate, ledSeen, argv, confFile, environ, options, envReads, result, delay>>
    /\ UNCHANGED <<exitLoop, stats, waitDeadline>>

\* After an exit request the run is followed to its end, also beyond MaxHits
\* requests: from there on the clock, the request counter, the request log
\* and the record of the LED states shown stand still.
FollowedOn == exitLoop /\ hits >= MaxHits

\* one pass of the inner loop, followed on
pollSummaryOn ==
    /\ prog \in {"monitor", "blink"} /\ pc = "summary"
    /\ FollowedOn
    /\ \E r \in Responses(prog, "summary", now) : EvalSummary(_rest(r), r, now)
    /\ UNCHANGED <<nliten, hits, reqLog, now, shown>>
    /\ UNCHANGED <<prog, rate, ledSeen, argv, confFile, environ, options, envReads, result, delay>>
    /\ UNCHANGED <<exitLoop, stats, waitDeadline>>

\* time.sleep(RETRY_DELAY) after abnormal data, followed on
retrySleepOn ==
    /\ prog \in {"monitor", "blink"} /\ pc = "retry"
    /\ FollowedOn
    /\ pc' = "inner"
    /\ UNCHANGED <<prog, rate, ledSeen, lastResp, now, exitStatus, nliten, hits, reqLog,
                   result, delay>>
    /\ UNCHANGED optVars
    /\ UNCHANGED runVars

\* time.sleep(RETRY_DELAY) after abnormal data
retrySleep ==
    /\ prog \in {"monitor", "blink"} /\ pc = "retry"
    /\ now' = now + RETRY_DELAY + delay.jitter
    /\ pc' = "inner"
    /\ UNCHANGED <<prog, rate, ledSeen, lastResp, exitStatus, nliten, hits, reqLog, result, delay>>
    /\ UNCHANGED optVars
    /\ UNCHANGED runVars

\* the outer loop's body after nliten.stats() returned ret, on the response r,
\* at time t
EvalStats(ret, r, t) ==
    /\ stats' = ret
    /\ lastResp' = Some(r)
    /\ IF ret = None
         THEN /\ RaiseAfter(RestLog(errors, r), "TypeError")
              /\ UNCHANGED <<leds, ledCall, waitDeadline>>
         ELSE LET meta == ret[1].meta
                  late == meta.last_report_at < t - UPDATE_INTERVAL(prog)
                  abnormal == meta.status # "normal"
              IN  /\ leds' = IF prog = "monitor"
                               THEN (IF late THEN staleData(leds)
                                     ELSE IF abnormal THEN abnormalData(leds)
                                     ELSE leds)
                               ELSE (IF late \/ abnormal THEN blinkError(leds)
                                     ELSE blinkData(leds))
                  /\ ledCall' = IF prog = "monitor"
                                  THEN (IF late THEN "staleData"
                                        ELSE IF abnormal THEN "abnormalData"
                                        ELSE ledCall)
                                  ELSE (IF late \/ abnormal THEN "error" ELSE "data")
                  /\ pc' = IF ~late /\ abnormal THEN "outer" ELSE "wait"
                  /\ waitDeadline' = IF ~late /\ abnormal THEN waitDeadline
                                     ELSE t + pollInterval(prog, Rate(prog, rate))
                  /\ UNCHANGED <<errors, exitStatus>>

\* the stats are fetched and shown; the wait between polls begins
pollStats ==
    /\ prog \in {"monitor", "blink"} /\ pc = "stats"
    /\ hits < MaxHits
    /\ \E r \in Responses(prog, "stats", now) :
         LET call == rateLimitedREST(nliten[1], "stats", now, delay.jitter, r)
             t    == call.req.at + delay.latency
         IN  /\ nliten' = Some(call.self)
             /\ hits' = hits + 1
             /\ reqLog' = Log(reqLog, call.req)
             /\ now' = t
             /\ EvalStats(call.ret, r, t)
    /\ UNCHANGED <<prog, rate, ledSeen, argv, confFile, environ, options, envReads, result, delay>>
    /\ UNCHANGED <<exitLoop, current, normal, summary, shown>>

\* the stats are fetched and shown, followed on
pollStatsOn ==
    /\ prog \in {"monitor", "blink"} /\ pc = "stats"
    /\ FollowedOn
    /\ \E r \in Responses(prog, "stats", now) : EvalStats(_rest(r), r, now)
    /\ UNCHANGED <<nliten, hits, reqLog, now>>
    /\ UNCHANGED <<prog, rate, ledSeen, argv, confFile, environ, options, envReads, result, delay>>
    /\ UNCHANGED <<exitLoop, current, normal, summary, shown>>

\* a second of exitLoop.wait(pollInterval) passes
waitTick ==
    /\ prog \in {"monitor", "blink"} /\ pc = "wait"
    /\ ~exitLoop /\ now < waitDeadline
    /\ now' = now + 1
    /\ UNCHANGED <<prog, rate, ledSeen, lastResp, pc, exitStatus, nliten, hits, reqLog, result, delay>>
    /\ UNCHANGED optVars
    /\ UNCHANGED runVars

\* exitLoop.wait(pollInterval) returns: the event is set or the time is up
waitReturn ==
    /\ prog \in {"monitor", "blink"} /\ pc = "wait"
    /\ exitLoop \/ now >= waitDeadline
    /\ pc' = "outer"
    /\ UNCHANGED <<prog, rate, ledSeen, lastResp, now, exitStatus, nliten, hits, reqLog, result, delay>>
    /\ UNCHANGED optVars
    /\ UNCHANGED runVars

\* the command lines, configuration files and environments of the polling runs
InitRun ==
    /\ prog \in {"monitor", "blink"}
    /\ pc = "main"
    /\ argv \in [apiKey : {None}, uid : {None}, sysId : {None, Some("cliSys")}]
    /\ confFile = [exists |-> TRUE,
                   docs |-> << [apiKey |-> Some("fileKey"), uid |-> Some("fileUid")] >>]
    /\ environ = NoEnviron
    /\ delay \in Delays
    /\ rate \in Rates
    /\ InitCommon

Next ==
    \/ getOps \/ runStart \/ signalHandler
    \/ outerTest \/ innerTest \/ pollSummary \/ retrySleep \/ pollStats
    \/ waitTick \/ waitReturn

Spec == InitRun /\ [][Next]_vars

\* a polling run whose client is made with a sysId
InitLive ==
    /\ prog \in {"monitor", "blink"}
    /\ pc = "main"
    /\ argv = [apiKey |-> None, uid |-> None, sysId |-> Some("cliSys")]
    /\ confFile = [exists |-> TRUE,
                   docs |-> << [apiKey |-> Some("fileKey"), uid |-> Some("fileUid")] >>]
    /\ environ = NoEnviron
    /\ delay = [jitter |-> 0, latency |-> 0]
    /\ rate = None
    /\ InitCommon

\* the steps of the process itself: every call and every sleep returns
RunStep ==
    \/ getOps \/ runStart
    \/ outerTest \/ innerTest \/ pollSummary \/ pollStats
    \/ (~FollowedOn /\ retrySleep)
    \/ waitTick \/ waitReturn
    \/ pollSummaryOn \/ retrySleepOn \/ pollStatsOn

NextLive == RunStep \/ signalHandler

\* the single thread of run keeps running; a signal may or may not arrive
SpecLive == InitLive /\ [][NextLive]_vars /\ WF_vars(RunStep)

\* ------------------------------------------------------------ a direct user of Indicators.py
\* the recorded <<LEDs before, LEDs after>> of all calls
Observations == UNION { { <<c, x>> : x \in ledSeen[c] } : c \in IndicatorCalls }

\* the user makes the Indicators object
NewIndicators ==
    /\ prog = "lib" /\ pc = "leds" /\ ledCall = "none"
    /\ leds' = IndicatorsInit("monitor", leds)
    /\ ledCall' = "__init__"
    /\ UNCHANGED <<prog, rate, ledSeen, lastResp, pc, now, exitStatus, nliten, hits, reqLog,
                   result, delay>>
    /\ UNCHANGED optVars
    /\ UNCHANGED <<exitLoop, current, normal, summary, stats, waitDeadline, shown>>

\* the user calls staleData, lateReport, currentData(normal) or abnormalData
CallIndicators ==
    /\ prog = "lib" /\ pc = "leds" /\ ledCall # "none"
    /\ Cardinality(Observations) < MaxLedCalls
    /\ \E c \in IndicatorCalls :
         /\ leds' = IndicatorCall(c, leds)
         /\ ledCall' = c[1]
         /\ ledSeen' = [ledSeen EXCEPT ![c] = @ \cup {<<leds, leds'>>}]
    /\ UNCHANGED <<prog, rate, lastResp, pc, now, exitStatus, nliten, hits, reqLog,
                   result, delay>>
    /\ UNCHANGED optVars
    /\ UNCHANGED <<exitLoop, current, normal, summary, stats, waitDeadline, shown>>

InitIndicators ==
    /\ prog = "lib"
    /\ pc = "leds"
    /\ argv = NoArgv
    /\ confFile = [exists |-> FALSE, docs |-> <<>>]
    /\ environ = NoEnviron
    /\ delay = [jitter |-> 0, latency |-> 0]
    /\ rate = None
    /\ InitCommon

NextIndicators == NewIndicators \/ CallIndicators

SpecIndicators == InitIndicators /\ [][NextIndicators]_vars

\* ------------------------------------------------------------ the inputs of getOps
Keys == {"apiKey", "uid", "sysId"}

EnvVar(k) == CASE k = "apiKey" -> "ENPHASE_API_KEY"
               [] k = "uid"    -> "ENPHASE_UID"
               [] OTHER        -> "ENPHASE_SYSID"

CliVal(k) == CASE k = "apiKey" -> "cliKey" [] k = "uid" -> "cliUid" [] OTHER -> "cliSys"

FileVal(k) == CASE k = "apiKey" -> "fileKey" [] k = "uid" -> "fileUid" [] OTHER -> "fileSys"

EnvVal(k) == CASE k = "apiKey" -> "envKey" [] k = "uid" -> "envUid" [] OTHER -> "envSys"

\* a flag is absent, empty or given
Argvs == { a \in [Keys -> {None, Some("")} \cup {Some(CliVal(k)) : k \in Keys}] :
             \A k \in Keys : a[k] \in {None, Some(""), Some(CliVal(k))} }

\* a key of the YAML document is absent, null or given
ConfDicts ==
    UNION { { d \in [K -> {None} \cup {Some(FileVal(k)) : k \in Keys}] :
                \A k \in K : d[k] \in {None, Some(FileVal(k))} } : K \in SUBSET Keys }

ConfFiles ==
    { [exists |-> FALSE, docs |-> <<>>], [exists |-> TRUE, docs |-> <<>>] }
    \cup { [exists |-> TRUE, docs |-> <<d>>] : d \in ConfDicts }

\* an environment variable is unset, empty or set
Environs == { e \in [{EnvVar(k) : k \in Keys} -> {None, Some("")} \cup {Some(EnvVal(k)) : k \in Keys}] :
                \A k \in Keys : e[EnvVar(k)] \in {None, Some(""), Some(EnvVal(k))} }

\* every command line, configuration file and environment of the three tools
InitOps ==
    /\ prog \in {"monitor", "blink", "nliten"}
    /\ pc = "main"
    /\ argv \in Argvs
    /\ confFile \in ConfFiles
    /\ environ \in Environs
    /\ delay = [jitter |-> 0, latency |-> 0]
    /\ rate = None
    /\ InitCommon

NextOps == getOps \/ runStart

SpecOps == InitOps /\ [][NextOps]_vars

\* ------------------------------------------------------------ claims on the client
Max0(x) == IF x > 0 THEN x ELSE 0

\* C1: every two consecutive HTTP requests of a client are issued at least
\* 60/hitsPerMin seconds apart (the log holds the last two requests, so every
\* consecutive pair is its content in some state).
C1_MinSpacing ==
    (nliten # None /\ Len(reqLog) = 2) =>
        (reqLog[2].at - reqLog[1].at) * nliten[1].hitsPerMin >= 60

\* a third request that had to sleep because it came too soon after the second
C1_Witness ==
    /\ nliten # None /\ hits >= 3 /\ Len(reqLog) = 2
    /\ reqLog[2].slept > 0

\* C2: the sleep of a call is exactly max(0, secsBetweenHits - elapsed), with
\* elapsed the time since the previous request was issued; the first call of
\* a client does not sleep, and no sleep is longer than secsBetweenHits.
C2_SleepExact ==
    /\ (hits = 1 /\ Len(reqLog) = 1) => reqLog[1].slept = 0
    /\ (nliten # None /\ Len(reqLog) = 2) =>
          LET secs    == nliten[1].secsBetweenHits
              elapsed == reqLog[2].calledAt - reqLog[1].at
          IN  /\ reqLog[2].slept = Max0(secs - elapsed)
              /\ elapsed >= secs => reqLog[2].slept = 0
              /\ reqLog[2].slept <= secs
    /\ nliten # None => nliten[1].lastHit = Some(reqLog[Len(reqLog)].at)

\* a call that slept part of the interval, and one that came late enough not to sleep
C2_Witness ==
    /\ nliten # None /\ hits >= 3 /\ Len(reqLog) = 2
    /\ reqLog[1].slept > 0 /\ reqLog[1].slept < nliten[1].secsBetweenHits
    /\ reqLog[2].slept = 0

\* ------------------------------------------------------------ claims on the polling loop
\* the LED states shown after summary polls that gave the pair p
Afters(p) == { x[2] : x \in shown[p] }

Pairs == BOOLEAN \X BOOLEAN

\* C3: the LEDs after a summary poll are a function of (current, normal): all
\* polls of a run that gave the same pair left the same colours on both LEDs,
\* whatever the LEDs showed before.
C3_PureFunction == \A p \in Pairs : \A x, y \in shown[p] : x[2] = y[2]

\* monitor.run saw the same pair twice, with different colours on the LEDs before
C3_Witness ==
    /\ prog = "monitor"
    /\ \E p \in Pairs : \E x, y \in shown[p] : x[1] # y[1]

\* C4 as claimed: the four (current, normal) pairs give four pairwise distinct
\* LED colour states.
C4_FourDistinct ==
    \A p, q \in Pairs : p # q => Afters(p) \cap Afters(q) = {}

\* C4 as amended: two different pairs give the same LED colour state exactly
\* when both have current = FALSE, so the polls of a run show at most three
\* colour states.
C4_ThreeStates ==
    /\ \A p, q \in Pairs :
          (p # q /\ Afters(p) # {} /\ Afters(q) # {}) =>
              ((Afters(p) \cap Afters(q) # {}) <=> (~p[1] /\ ~q[1]))
    /\ Cardinality(UNION { Afters(p) : p \in Pairs }) <= 3

\* both pairs with current = FALSE and a pair with current = TRUE were shown
C4_Witness ==
    /\ prog = "monitor"
    /\ Afters(<<FALSE, FALSE>>) # {} /\ Afters(<<FALSE, TRUE>>) # {}
    /\ Afters(<<TRUE, FALSE>>) # {}

\* C5 as claimed: a summary poll ends with the stale-data indication exactly
\* when the summary's last_report_at is earlier than now - UPDATE_INTERVAL.
C5_StaleIffOld ==
    [][ (pc = "summary" /\ pc' \in {"inner", "retry", "stats"}) =>
          ((ledCall' = "staleData") <=>
           (summary'[1].last_report_at < now' - UPDATE_INTERVAL(prog))) ]_vars

\* C6: once the event is set during exitLoop.wait, the wait returns at once
\* and run goes from the wait to the loop test to the end of the loop,
\* issuing no request and calling no Indicators method.
C6_ExitDuringWait ==
    [][ /\ exitLoop => exitLoop'
        /\ (exitLoop /\ pc = "wait") =>
              (pc' = "outer" /\ now' = now /\ hits' = hits
               /\ leds' = leds /\ ledCall' = ledCall)
        /\ (exitLoop /\ pc = "outer") =>
              (pc' = "done" /\ now' = now /\ hits' = hits
               /\ leds' = leds /\ ledCall' = ledCall)
        /\ pc = "done" => pc' = "done" ]_vars

\* run left the loop before the wait it was woken from would have timed out
C6_Witness == pc = "done" /\ exitLoop /\ now < waitDeadline

\* ------------------------------------------------------------ claims on getOps
\* the YAML document getOps read
Conf == confFile.docs[1]

ConfLoaded == confFile.exists /\ Len(confFile.docs) >= 1

Creds == {"apiKey", "uid"}

\* C7 as claimed: the flag, else the environment variable, else the
\* configuration file (read on the files whose entries are all non-empty values).
C7_EnvBeforeFile ==
    (options # None /\ \A k \in DOMAIN Conf : TruthyStr(Conf[k])) =>
      \A k \in Creds :
        options[1][k] = IF TruthyStr(argv[k]) THEN argv[k]
                        ELSE IF TruthyStr(environ[EnvVar(k)]) THEN environ[EnvVar(k)]
                        ELSE IF k \in DOMAIN Conf THEN Conf[k]
                        ELSE None

\* C7 as amended: the flag, else the configuration file's entry when the
\* file has the key, else the environment variable.
C7_FileBeforeEnv ==
    options # None =>
      \A k \in Creds :
        options[1][k] = IF TruthyStr(argv[k]) THEN argv[k]
                        ELSE IF k \in DOMAIN Conf THEN Conf[k]
                        ELSE environ[EnvVar(k)]

\* no flag, a value in the file and one in the environment: the file's is returned
C7_Witness ==
    /\ options # None
    /\ ~TruthyStr(argv.apiKey)
    /\ "apiKey" \in DOMAIN Conf /\ Conf.apiKey = Some("fileKey")
    /\ environ.ENPHASE_API_KEY = Some("envKey")
    /\ options[1].apiKey = Some("fileKey")

\* C8: a flag that is given overrides the file's value, and the environment
\* variable is looked up only when there is neither a flag nor an entry in
\* the file.
C8_FlagOverridesEnvLast ==
    (pc # "main" /\ ConfLoaded) =>
      \A k \in Creds :
        /\ (options # None /\ TruthyStr(argv[k])) => options[1][k] = argv[k]
        /\ EnvVar(k) \in envReads => (~TruthyStr(argv[k]) /\ k \notin DOMAIN Conf)

\* uid given by flag and by file, apiKey only by the environment
C8_Witness ==
    /\ options # None
    /\ argv.uid = Some("cliUid")
    /\ "uid" \in DOMAIN Conf /\ Conf.uid = Some("fileUid")
    /\ options[1].uid = Some("cliUid")
    /\ "ENPHASE_API_KEY" \in envReads /\ "ENPHASE_UID" \notin envReads
    /\ options[1].apiKey = Some("envKey")

\* C9 as claimed: with no -s flag, a non-empty sysId of the configuration
\* file is the sysId of the returned options and of the client made from them.
C9_ConfSysIdKept ==
    (options # None /\ ~TruthyStr(argv.sysId)
        /\ "sysId" \in DOMAIN Conf /\ TruthyStr(Conf["sysId"])) =>
      /\ options[1].sysId = Conf["sysId"]
      /\ nliten # None => nliten[1].sysId = Conf["sysId"]

\* k is given neither by flag, nor in the configuration file, nor in the environment
NotGiven(k) ==
    /\ ~TruthyStr(argv[k])
    /\ ConfLoaded => k \notin DOMAIN Conf
    /\ ~TruthyStr(environ[EnvVar(k)])

FailedRestCall == <<"logging.error", "Failed REST call">>

\* what an API method returns on the response r, as C11 states it
Returned(r) == IF r.status_code = 200 THEN Some(r.json) ELSE None

C12_FailureAbsorbed ==
    [][ (prog = "monitor" /\ pc \in {"summary", "stats"} /\ hits' = hits + 1
            /\ lastResp'[1].status_code # 200) =>
          (pc' \in RunPcs /\ exitStatus' = None) ]_vars

\* C13 as claimed: the constructor completes after one request whatever the
\* response; the client's sysId is the one given, else the system_id of the
\* first system of the response.
C13_ConstructCompletes ==
    hits >= 1 =>
      /\ hits = 1 /\ pc # "raised" /\ nliten # None
      /\ nliten[1].sysId = IF TruthyStr(options[1].sysId) THEN options[1].sysId
                           ELSE Some(lastResp[1].json.systems[1].system_id)

\* C14 as claimed: the wait between two poll cycles is 3600 * rate seconds in
\* monitor.run and 3600 / rate seconds in blink.run.
C14_WaitFromRate ==
    [][ (pc = "stats" /\ pc' = "wait") =>
          waitDeadline' - now' = IF prog = "monitor" THEN 3600 * Rate(prog, rate)
                                 ELSE 3600 \div Rate(prog, rate) ]_vars

\* ------------------------------------------------------------ claims on termination
\* the run reached "Shutting down", or a response was not well-formed (a
\* non-200 response to summary() or stats() raises TypeError in run)
Ended == pc = "done" \/ pc = "raised"

\* C15: once the signal handler has set exitLoop, monitor.run leaves both
\* loops and reaches "Shutting down", whatever well-formed summaries and stats
\* it receives, provided every REST call and every sleep returns.
C15_MonitorTerminates == (prog = "monitor" /\ exitLoop) ~> Ended

\* monitor.run left the inner loop on the exit request though no summary was
\* both current and normal, fetched the stats and shut down
C15_Witness ==
    /\ prog = "monitor" /\ pc = "done" /\ exitLoop
    /\ summary # None /\ ~(current /\ normal) /\ stats # None

\* C16 as claimed: once the signal handler has set exitLoop, blink.run leaves
\* both loops and reaches "Shutting down", also when no summary is both
\* current and normal.
C16_BlinkTerminates == (prog = "blink" /\ exitLoop) ~> Ended

\* ------------------------------------------------------------ claims on Indicators.py
\* C17: after any sequence of calls of staleData, lateReport, currentData(normal)
\* and abnormalData, the colours of both LEDs are those the last call sets:
\* every call of the same method with the same argument left the same two
\* colours, whatever the LEDs showed before, and the LEDs show the colours
\* of the last call.
C17_LastCallDecides ==
    /\ \A c \in IndicatorCalls : \A x, y \in ledSeen[c] : x[2] = y[2]
    /\ (prog = "lib" /\ ledCall \notin {"none", "__init__"}) =>
          \E c \in IndicatorCalls : c[1] = ledCall /\ \E x \in ledSeen[c] : x[2] = leds

\* the same call was made on LEDs that showed different colours on LED 1 and
\* different colours on LED 2
C17_Witness ==
    \E c \in IndicatorCalls : \E x, y \in ledSeen[c] :
        x[1][1] # y[1][1] /\ x[1][2] # y[1][2]

====
